---- MODULE Spec2Model ----
(***************************************************************************)
(* Model of the batch compression pipeline of main_fixed_v2.py:            *)
(*   - ImageProcessor.compress_image   (the size-targeting JPEG encoder)   *)
(*   - ImageProcessor.process_images   (folder-mode path resolution, loop) *)
(*   - ImageWorker.process / stop      (the cancellable batch runner)      *)
(*                                                                         *)
(* Text is modelled as sequences of one-character strings, a path as a     *)
(* sequence of segments (each segment a text), so that lower(), endswith, *)
(* splitext, relpath and join are computed, not assumed.                   *)
(***************************************************************************)
EXTENDS Integers, Sequences, FiniteSets, TLC

VARIABLES
    \* ---- ImageWorker fields (ImageWorker.__init__) ----
    files,        \* self.files: ordered list of source files
    input_dir,    \* self.input_dir
    max_kb,       \* self.max_kb
    quality,      \* self.quality
    folder_mode,  \* self.folder_mode: "multiple" | "single" | "file"
    prefix,       \* self.prefix
    is_running,   \* self._is_running
    \* ---- ImageWorker.process / process_images locals ----
    pc,           \* position of the worker inside process(); "done" after
                  \* it returned, "raised" after an exception left it
    idx,          \* loop index of the file loop (0-based, as enumerate)
    results,      \* the local list `results`
    ridx,         \* position of the result-emission loop
    \* ---- observable effects ----
    events,       \* signals emitted so far, in order
    disk,         \* output files written so far (path -> content)
    madeDirs,     \* directories created by os.makedirs, ancestors included
    stopLog,      \* history: worker position at the stop() call that cleared the flag
    attempted,    \* history: the files whose processing has begun, in order,
                  \* and what the loop body did for each
    \* ---- one call of compress_image ----
    encIn,        \* arguments of the call
    encOut,       \* its result
    \* ---- one call of the path resolution ----
    resIn,        \* arguments
    resOut,       \* results of the folder-mode and file-mode resolution
    \* ---- the path resolution of two files of one run ----
    pairIn,       \* mode, input directory, prefix and the two source files
    pairOut,      \* the two resolutions
    \* ---- MainWindow and the workers it has started ----
    mw_worker,    \* self.worker: 0 for None, else the number of a run
    tabs,         \* per tab: the state of its three buttons and its input
    runs,         \* the ImageWorker objects created so far, in order
    sigq,         \* finished signals queued for the main thread
    stopLogUI,    \* history: what the last press of STOP found and did
    app           \* "running", "dialog" while the modal prefix dialog is open,
                  \* or "aborted" once Qt has ended the process

vars == <<files, input_dir, max_kb, quality, folder_mode, prefix, is_running,
          pc, idx, results, ridx, events, disk, madeDirs, stopLog,
          attempted, encIn, encOut, resIn, resOut,
          pairIn, pairOut, mw_worker, tabs, runs, sigq, stopLogUI, app>>

pairVars == <<pairIn, pairOut>>

uiVars == <<mw_worker, tabs, runs, sigq, stopLogUI, app>>

workerVars == <<files, input_dir, max_kb, quality, folder_mode, prefix,
                is_running, pc, idx, results, ridx, events, disk, madeDirs,
                stopLog, attempted>>

--------------------------------------------------------------------------
(* Bounds of the model *)

MaxFiles == 2
MaxKB == 2
MaxRuns == 2

--------------------------------------------------------------------------
(* Text *)

\* str.lower() on one character: the letters A..Z are mapped, every other
\* character of the modelled names is left as it is
UpperLetters ==
    <<"A", "B", "C", "D", "E", "F", "G", "H", "I", "J", "K", "L", "M",
      "N", "O", "P", "Q", "R", "S", "T", "U", "V", "W", "X", "Y", "Z">>

LowerLetters ==
    <<"a", "b", "c", "d", "e", "f", "g", "h", "i", "j", "k", "l", "m",
      "n", "o", "p", "q", "r", "s", "t", "u", "v", "w", "x", "y", "z">>

Lower(c) ==
    IF \E i \in DOMAIN UpperLetters : UpperLetters[i] = c
    THEN LowerLetters[CHOOSE i \in DOMAIN UpperLetters : UpperLetters[i] = c]
    ELSE c

LowerStr(s) == [i \in 1..Len(s) |-> Lower(s[i])]

\* str.endswith(suffix)
EndsWith(s, suffix) ==
    /\ Len(s) >= Len(suffix)
    /\ SubSeq(s, Len(s) - Len(suffix) + 1, Len(s)) = suffix

\* str.rfind('.') as a 1-based index, 0 when there is no dot
LastDot(s) ==
    IF \E i \in 1..Len(s) : s[i] = "."
    THEN CHOOSE i \in 1..Len(s) :
            /\ s[i] = "."
            /\ \A j \in (i+1)..Len(s) : s[j] # "."
    ELSE 0

\* os.path.splitext on a name without separators: the extension starts at
\* the last dot, unless only dots precede it
SplitExt(s) ==
    LET d == LastDot(s) IN
    IF d > 0 /\ \E i \in 1..(d-1) : s[i] # "."
    THEN [root |-> SubSeq(s, 1, d-1), ext |-> SubSeq(s, d, Len(s))]
    ELSE [root |-> s, ext |-> <<>>]

DotJpg == <<".", "j", "p", "g">>
DotJpeg == <<".", "j", "p", "e", "g">>
DotPng == <<".", "p", "n", "g">>
Underscore == <<"_">>
Reduced == <<"r", "e", "d", "u", "c", "e", "d">>
CurDir == <<".">>
ParDir == <<".", ".">>

--------------------------------------------------------------------------
(* Paths: absolute paths are sequences of segments below the root,         *)
(* relative paths are sequences of segments.                               *)

\* os.path.dirname / os.path.basename of a file path
Dirname(p) == SubSeq(p, 1, Len(p) - 1)
Basename(p) == p[Len(p)]

\* os.path.join of a path and relative parts; an empty part adds nothing
Join(p, rel) == p \o SelectSeq(rel, LAMBDA seg : seg # <<>>)

RECURSIVE Normpath(_)
\* os.path.normpath: drops "." segments and resolves ".."
Normpath(p) ==
    IF p = <<>> THEN <<>>
    ELSE LET init == Normpath(SubSeq(p, 1, Len(p) - 1))
             last == p[Len(p)]
         IN  IF last = CurDir THEN init
             ELSE IF last = ParDir /\ init # <<>> /\ init[Len(init)] # ParDir
                  THEN SubSeq(init, 1, Len(init) - 1)
             ELSE IF last = ParDir /\ init = <<>> THEN <<>>
             ELSE Append(init, last)

RECURSIVE CommonLen(_, _)
\* length of the common leading part of two segment lists
CommonLen(a, b) ==
    IF a = <<>> \/ b = <<>> \/ a[1] # b[1] THEN 0
    ELSE 1 + CommonLen(Tail(a), Tail(b))

\* os.path.relpath(path, start) for absolute paths: both are normalised,
\* the result is ".." for every segment of start outside the common part
\* followed by the rest of path, and "." when that is empty
Relpath(path, start) ==
    LET p == Normpath(path)
        s == Normpath(start)
        c == CommonLen(p, s)
        ups == [i \in 1..(Len(s) - c) |-> ParDir]
        rel == ups \o SubSeq(p, c + 1, Len(p))
    IN  IF rel = <<>> THEN <<CurDir>> ELSE rel

--------------------------------------------------------------------------
(* ImageProcessor.compress_image *)

DefaultMaxWidth == 1024
QualityStop == 30
QualityStep == 5
FallbackQuality == 30
BytesPerKB == 1024

\* pixel modes converted to RGB before encoding
ConvertedModes == {"CMYK", "LA", "RGBA"}

\* pixel modes the JPEG writer of the imaging library accepts
JpegModes == {"1", "L", "RGB", "RGBX", "CMYK", "YCbCr"}

\* variant: the ladder includes its stop value, range(quality, 29, -5)
QualityRange_Inclusive(q) ==
    IF q >= QualityStop
    THEN [i \in 1..((q - QualityStop) \div QualityStep + 1) |->
            q - QualityStep * (i - 1)]
    ELSE <<>>

RECURSIVE QualityRange(_)
\* range(quality, 30, -5)
QualityRange(q) ==
    IF q > QualityStop THEN <<q>> \o QualityRange(q - QualityStep) ELSE <<>>

\* size in bytes of the image encoded at quality q
EncodedBytes(img, q) == img.k * q

\* variant: the size is truncated to whole kilobytes before the comparison
WithinBudget_Truncated(bytes, maxkb) == bytes \div BytesPerKB <= maxkb

\* size_kb = buffer.tell() / 1024; size_kb <= max_kb
WithinBudget(bytes, maxkb) == bytes <= maxkb * BytesPerKB

\* img.convert('RGB') when the mode is one of CMYK, LA, RGBA
ConvertMode(m) == IF m \in ConvertedModes THEN "RGB" ELSE m

\* fraction bits of the double that holds ratio = max_width / img.width
FractionBits == 52

RECURSIVE Pow2(_)
Pow2(n) == IF n = 0 THEN 1 ELSE 2 * Pow2(n - 1)

RECURSIVE ShiftMod(_, _, _)
\* (r * 2^n) mod w
ShiftMod(r, n, w) == IF n = 0 THEN r ELSE ShiftMod((2 * r) % w, n - 1, w)

RECURSIVE RatioExponent(_, _, _)
\* the least k >= from with 2^-k <= m / w, for m < w
RatioExponent(m, w, from) ==
    IF m * Pow2(from) >= w THEN from ELSE RatioExponent(m, w, from + 1)

RECURSIVE CeilLog2(_, _)
\* the least e >= from with n <= 2^e
CeilLog2(n, from) == IF n <= Pow2(from) THEN from ELSE CeilLog2(n, from + 1)

\* the double product height * ratio falls below the exact quotient
\* height * max_width / width: the quotient is an integer, the double
\* nearest to max_width / width lies below it by rem / (width * 2^scale),
\* and height times that error exceeds half the spacing of the doubles
\* below the quotient
ProductBelowQuotient(w, h, m) ==
    /\ (h * m) % w = 0
    /\ LET k == RatioExponent(m, w, 1)
           rem == ShiftMod(m % w, FractionBits + k, w)
           e == CeilLog2((h * m) \div w, 0)
       IN  /\ rem # 0
           /\ 2 * rem < w
           /\ 4 * h * rem > w * Pow2(e + k)

\* variant: the new height is rounded to the nearest integer
ResizedHeight_Rounded(img, max_width) ==
    (2 * img.height * max_width + img.width) \div (2 * img.width)

\* new height after the resize to max_width, for width > max_width:
\* ratio = max_width / img.width; int(img.height * ratio), in doubles
ResizedHeight(img, max_width) ==
    LET exact == (img.height * max_width) \div img.width
    IN  IF ProductBelowQuotient(img.width, img.height, max_width)
        THEN exact - 1
        ELSE exact

\* the destination output_path: `opens` tells whether it can be opened for
\* writing, `exists` whether a file is there before the call; a limited
\* destination (a full disk, a file-size limit) holds `limit` bytes, and a
\* write of more leaves `limit` bytes and raises
Dest(opens, exists, limited, limit) ==
    [opens |-> opens, exists |-> exists, limited |-> limited, limit |-> limit]

\* open(output_path, 'wb') and every write succeed
Writable(dest) == dest.opens /\ ~dest.limited

\* open(output_path, 'wb') followed by a write of `bytes` bytes succeeds
Takes(dest, bytes) == dest.opens /\ (dest.limited => bytes <= dest.limit)

NoOutput == [written |-> FALSE, truncated |-> FALSE, quality |-> 0,
             bytes |-> 0, width |-> 0, height |-> 0]

\* the file a failed write leaves at output_path: the last writer is the
\* fallback save, which writes what the destination holds of its encoding,
\* and nothing when the mode cannot be encoded
Leftover(img, mode, dest, w, h) ==
    [written |-> FALSE, truncated |-> TRUE, quality |-> FallbackQuality,
     bytes |-> IF mode \in JpegModes THEN dest.limit ELSE 0,
     width |-> w, height |-> h]

RECURSIVE QualitySearch(_, _, _, _, _)
\* the for-loop over range(quality, 30, -5): every iteration encodes into
\* the buffer; an encode or write that raises is caught and the loop goes
\* on. `opened` tells whether some iteration has opened output_path
QualitySearch(ladder, img, mode, dest, maxkb) ==
    IF ladder = <<>>
    THEN [optimized |-> FALSE, q |-> 0, opened |-> FALSE, attempts |-> <<>>]
    ELSE LET q == Head(ladder)
             encodable == mode \in JpegModes
             fits == encodable /\ WithinBudget(EncodedBytes(img, q), maxkb)
             att == [q |-> q, target |-> "buffer", ok |-> encodable]
         IN  IF fits /\ Takes(dest, EncodedBytes(img, q))
             THEN [optimized |-> TRUE, q |-> q, opened |-> TRUE,
                   attempts |-> <<att>>]
             ELSE LET rest == QualitySearch(Tail(ladder), img, mode, dest, maxkb)
                  IN  [rest EXCEPT !.attempts = <<att>> \o rest.attempts,
                                   !.opened = rest.opened \/ (fits /\ dest.opens)]

\* compress_image(input_path, output_path, max_kb, quality, max_width):
\* img is the content of input_path, dest the state of output_path. When
\* the fallback save raises, the imaging library removes the file if the
\* save itself created it; a file that was there before, or that an
\* iteration of the loop created, stays, cut short
compress_image(img, dest, maxkb, q0, max_width) ==
    IF ~img.readable
    THEN [ok |-> FALSE, attempts |-> <<>>, out |-> NoOutput]
    ELSE
    LET mode == ConvertMode(img.mode)
        resize == img.width > max_width
        w == IF resize THEN max_width ELSE img.width
        h == IF resize THEN ResizedHeight(img, max_width) ELSE img.height
    IN  IF h <= 0
        THEN [ok |-> FALSE, attempts |-> <<>>, out |-> NoOutput]
        ELSE
        LET s == QualitySearch(QualityRange(q0), img, mode, dest, maxkb)
            fb == [q |-> FallbackQuality, target |-> "file",
                   ok |-> /\ mode \in JpegModes
                          /\ Takes(dest, EncodedBytes(img, FallbackQuality))]
        IN  IF s.optimized
            THEN [ok |-> TRUE, attempts |-> s.attempts,
                  out |-> [written |-> TRUE, truncated |-> FALSE,
                           quality |-> s.q,
                           bytes |-> EncodedBytes(img, s.q),
                           width |-> w, height |-> h]]
            ELSE IF fb.ok
            THEN [ok |-> TRUE, attempts |-> Append(s.attempts, fb),
                  out |-> [written |-> TRUE, truncated |-> FALSE,
                           quality |-> FallbackQuality,
                           bytes |-> EncodedBytes(img, FallbackQuality),
                           width |-> w, height |-> h]]
            ELSE [ok |-> FALSE, attempts |-> Append(s.attempts, fb),
                  out |-> IF dest.opens /\ (dest.exists \/ s.opened)
                          THEN Leftover(img, mode, dest, w, h)
                          ELSE NoOutput]

--------------------------------------------------------------------------
(* Path resolution *)

\* process_images: new_filename = f"{prefix}_{filename}" if prefix else
\* filename; the extension is replaced unless the name ends in ".jpg"
new_filename_folder(pfx, filename) ==
    LET named == IF pfx # <<>> THEN pfx \o Underscore \o filename ELSE filename
    IN  IF ~EndsWith(LowerStr(filename), DotJpg)
        THEN SplitExt(named).root \o DotJpg
        ELSE named

\* variant: ".png" is also taken for an extension to keep
new_filename_file_KeepPng(pfx, filename) ==
    LET ext == SplitExt(filename).ext
        named == IF pfx # <<>> THEN pfx \o Underscore \o filename ELSE filename
    IN  IF LowerStr(ext) \notin {DotJpg, DotJpeg, DotPng}
        THEN SplitExt(named).root \o DotJpg
        ELSE named

\* ImageWorker.process, file mode: the extension is replaced unless it is
\* ".jpg" or ".jpeg"
new_filename_file(pfx, filename) ==
    LET ext == SplitExt(filename).ext
        named == IF pfx # <<>> THEN pfx \o Underscore \o filename ELSE filename
    IN  IF LowerStr(ext) \notin {DotJpg, DotJpeg}
        THEN SplitExt(named).root \o DotJpg
        ELSE named

\* rel_path.split(os.sep)[0] if rel_path else ""
Level1Folder(rel_path) == IF rel_path # <<>> THEN rel_path[1] ELSE <<>>

\* variant: every level-1 folder shares the output tree and the prefix of
\* the input root
FolderResolve_SharedBase(file_path, indir, mode) ==
    LET dirname == Dirname(file_path)
        filename == Basename(file_path)
        rel_path == Relpath(dirname, indir)
        level1_folder == Level1Folder(rel_path)
        pfx == IF Normpath(indir) = <<>> THEN <<>>
               ELSE Basename(Normpath(indir))
        reduced_base == Join(indir, <<Reduced>>)
        rel_output_path == IF mode = "multiple"
                           THEN Relpath(dirname, Join(indir, <<level1_folder>>))
                           ELSE rel_path
        new_filename == new_filename_folder(pfx, filename)
        output_dir == Join(reduced_base, rel_output_path)
    IN  [filename |-> filename, prefix |-> pfx, new_filename |-> new_filename,
         output_dir |-> output_dir,
         output_path |-> Join(output_dir, <<new_filename>>)]

\* process_images, from the path extraction to output_path
FolderResolve(file_path, indir, mode) ==
    LET dirname == Dirname(file_path)
        filename == Basename(file_path)
        rel_path == Relpath(dirname, indir)
        level1_folder == Level1Folder(rel_path)
        pfx == IF mode = "multiple" THEN level1_folder
               ELSE IF Normpath(indir) = <<>> THEN <<>>
               ELSE Basename(Normpath(indir))
        reduced_base == IF mode = "multiple"
                        THEN Join(indir, <<level1_folder, Reduced>>)
                        ELSE Join(indir, <<Reduced>>)
        rel_output_path == IF mode = "multiple"
                           THEN Relpath(dirname, Join(indir, <<level1_folder>>))
                           ELSE rel_path
        new_filename == new_filename_folder(pfx, filename)
        output_dir == Join(reduced_base, rel_output_path)
    IN  [filename |-> filename, prefix |-> pfx, new_filename |-> new_filename,
         output_dir |-> output_dir,
         output_path |-> Join(output_dir, <<new_filename>>)]

\* ImageWorker.process, file mode, from the path extraction to output_path
FileResolve(file_path, pfx) ==
    LET dirname == Dirname(file_path)
        filename == Basename(file_path)
        reduced_path == Join(dirname, <<Reduced>>)
        new_filename == new_filename_file(pfx, filename)
    IN  [filename |-> filename, prefix |-> pfx, new_filename |-> new_filename,
         output_dir |-> reduced_path,
         output_path |-> Join(reduced_path, <<new_filename>>)]

--------------------------------------------------------------------------
(* Inputs *)

SegP == <<"p">>
SegA == <<"a">>
SegB == <<"b">>
SegI == <<"i">>

\* file names accepted by the collectors: they end in .jpg, .jpeg or .png in
\* any letter case
FileNames ==
    { <<"x">> \o DotPng, <<"x">> \o DotJpg, <<"x">> \o DotJpeg,
      <<"x", ".", "P", "N", "G">>, <<"x", ".", "J", "P", "G">>,
      <<"x", ".", "J", "P", "E", "G">>, <<"x", ".", "J", "p", "e", "g">>,
      <<"a", ".", "x">> \o DotPng, <<"x", ".", "p", "n", "g">> \o DotJpeg }

InputRoot == <<SegP>>

\* directories at and below the input root
SourceDirs ==
    { InputRoot, InputRoot \o <<SegA>>, InputRoot \o <<SegA, SegI>>,
      InputRoot \o <<SegB>>, InputRoot \o <<SegB, SegI>>,
      InputRoot \o <<SegA, Reduced, SegI>> }

UserPrefixes == { <<>>, SegA, SegP, <<"v", ".", "1">> }

Modes == {"multiple", "single", "file"}
FolderModes == {"multiple", "single"}

PixelModes == {"RGB", "RGBA", "LA", "CMYK", "P", "PA", "L"}

\* costs per quality unit, chosen so that the budget of 1 KB is met from
\* every rung of the ladder downwards, at the boundary, or never
Costs == {10, 12, 16, 29, 30, 32, 33, 34, 40}

Image(readable, mode, w, h, k) ==
    [readable |-> readable, mode |-> mode, width |-> w, height |-> h, k |-> k]

EncImages ==
    { Image(TRUE, "RGB", 800, 600, k) : k \in Costs }
    \cup { Image(TRUE, m, 800, 600, 16) : m \in PixelModes }
    \cup { Image(TRUE, "RGB", 1024, 768, 30), Image(TRUE, "RGB", 1025, 768, 30),
           Image(TRUE, "RGB", 2000, 3000, 30), Image(TRUE, "RGB", 2000, 1, 30),
           Image(TRUE, "RGB", 1500, 1000, 30), Image(TRUE, "RGB", 1122, 561, 30),
           Image(TRUE, "RGB", 3000, 1, 30),
           Image(FALSE, "RGB", 800, 600, 16) }

\* destinations: writable, not writable, and holding 500 bytes, with and
\* without a file there already
EncLimits == {500}
EncDests ==
    { Dest(TRUE, FALSE, FALSE, 0), Dest(FALSE, FALSE, FALSE, 0) }
    \cup { Dest(TRUE, exists, TRUE, limit) :
             exists \in BOOLEAN, limit \in EncLimits }

Qualities == 1..100
MaxSizes == 1..MaxKB

NoEncIn == [img |-> Image(FALSE, "RGB", 1, 1, 10),
            dest |-> Dest(FALSE, FALSE, FALSE, 0),
            max_kb |-> 1, quality |-> 1, called |-> FALSE]
NoEncOut == [ok |-> FALSE, attempts |-> <<>>, out |-> NoOutput]

NoResIn == [mode |-> "file", input_dir |-> <<>>, file_path |-> <<>>,
            prefix |-> <<>>, called |-> FALSE]
NoRes == [filename |-> <<>>, prefix |-> <<>>, new_filename |-> <<>>,
          output_dir |-> <<>>, output_path |-> <<>>]
NoResOut == [folder |-> NoRes, file |-> NoRes, same |-> NoRes]

NoPairIn == [mode |-> "file", input_dir |-> <<>>, paths |-> <<>>,
             prefix |-> <<>>, called |-> FALSE]

\* no press of STOP yet
NoPress == [tab |-> "", processing |-> {}, flagged |-> 0]

PairIdle == pairIn = NoPairIn /\ pairOut = <<>>

\* MainWindow.__init__: no worker, and no window modelled
UiIdle ==
    /\ mw_worker = 0 /\ tabs = <<>> /\ runs = <<>> /\ sigq = <<>>
    /\ stopLogUI = NoPress /\ app = "running"

WorkerIdle ==
    /\ files = <<>> /\ input_dir = <<>> /\ max_kb = 1 /\ quality = 1
    /\ folder_mode = "file" /\ prefix = <<>> /\ is_running = TRUE
    /\ pc = "idle" /\ idx = 0 /\ results = <<>> /\ ridx = 0
    /\ events = <<>> /\ disk = <<>> /\ madeDirs = {} /\ stopLog = <<>>
    /\ attempted = <<>>

--------------------------------------------------------------------------
(* Specification of one call of compress_image *)

EncInit ==
    /\ WorkerIdle /\ PairIdle /\ UiIdle
    /\ resIn = NoResIn /\ resOut = NoResOut
    /\ encOut = NoEncOut
    /\ \E img \in EncImages, dest \in EncDests, kb \in MaxSizes, q \in Qualities :
         encIn = [img |-> img, dest |-> dest, max_kb |-> kb, quality |-> q,
                  called |-> FALSE]

\* compress_image is called with max_width left at its default
CompressCall ==
    /\ ~encIn.called
    /\ encIn' = [encIn EXCEPT !.called = TRUE]
    /\ encOut' = compress_image(encIn.img, encIn.dest, encIn.max_kb,
                                encIn.quality, DefaultMaxWidth)
    /\ UNCHANGED <<workerVars, resIn, resOut, pairVars, uiVars>>

EncNext == CompressCall

SpecEnc == EncInit /\ [][EncNext]_vars

--------------------------------------------------------------------------
(* Specification of one path resolution *)

ResInit ==
    /\ WorkerIdle /\ PairIdle /\ UiIdle
    /\ encIn = NoEncIn /\ encOut = NoEncOut
    /\ resOut = NoResOut
    /\ \E m \in FolderModes, d \in SourceDirs, f \in FileNames,
          p \in UserPrefixes :
         resIn = [mode |-> m, input_dir |-> InputRoot,
                  file_path |-> Append(d, f), prefix |-> p, called |-> FALSE]

\* the same file resolved by process_images (folder), by the file-mode
\* branch of ImageWorker.process with the user's prefix (file), and by the
\* file-mode branch given the prefix the folder mode derived (same)
ResolveCall ==
    /\ ~resIn.called
    /\ resIn' = [resIn EXCEPT !.called = TRUE]
    /\ LET fo == FolderResolve(resIn.file_path, resIn.input_dir, resIn.mode)
       IN  resOut' = [folder |-> fo,
                      file |-> FileResolve(resIn.file_path, resIn.prefix),
                      same |-> FileResolve(resIn.file_path, fo.prefix)]
    /\ UNCHANGED <<workerVars, encIn, encOut, pairVars, uiVars>>

ResNext == ResolveCall

SpecPath == ResInit /\ [][ResNext]_vars

--------------------------------------------------------------------------
(* Specification of the path resolution of two source files of one run *)

\* names of source files, and of outputs an earlier run has left
PairNames ==
    { <<"x">> \o DotPng, <<"x">> \o DotJpg, <<"x">> \o DotJpeg,
      SegA \o Underscore \o <<"x">> \o DotJpg,
      SegP \o Underscore \o <<"x">> \o DotJpg }

\* directories the walk of the input root visits, the `reduced` folders of
\* an earlier run included
PairDirs ==
    { InputRoot, InputRoot \o <<SegA>>, InputRoot \o <<SegA, SegI>>,
      InputRoot \o <<SegB>>, InputRoot \o <<SegB, SegI>>,
      InputRoot \o <<Reduced>>, InputRoot \o <<SegA, Reduced>> }

PairFiles == { Append(d, f) : d \in PairDirs, f \in PairNames }

PairInit ==
    /\ WorkerIdle /\ UiIdle
    /\ encIn = NoEncIn /\ encOut = NoEncOut
    /\ resIn = NoResIn /\ resOut = NoResOut
    /\ pairOut = <<>>
    /\ \E m \in Modes, f1 \in PairFiles, f2 \in PairFiles :
         \E p \in IF m = "file" THEN UserPrefixes ELSE { <<>> } :
           /\ f1 # f2
           /\ pairIn = [mode |-> m,
                        input_dir |-> IF m = "file" THEN <<>> ELSE InputRoot,
                        paths |-> <<f1, f2>>, prefix |-> p, called |-> FALSE]

\* the resolution the run's mode applies to a source file
RunResolve(file_path, indir, mode, pfx) ==
    IF mode = "file" THEN FileResolve(file_path, pfx)
    ELSE FolderResolve(file_path, indir, mode)

\* both files of the run are resolved, in list order
ResolvePair ==
    /\ ~pairIn.called
    /\ pairIn' = [pairIn EXCEPT !.called = TRUE]
    /\ pairOut' = [i \in DOMAIN pairIn.paths |->
                     RunResolve(pairIn.paths[i], pairIn.input_dir,
                                pairIn.mode, pairIn.prefix)]
    /\ UNCHANGED <<workerVars, encIn, encOut, resIn, resOut, uiVars>>

PairNext == ResolvePair

SpecPair == PairInit /\ [][PairNext]_vars

--------------------------------------------------------------------------
(* ImageWorker.process, ImageProcessor.process_images, ImageWorker.stop *)

\* source files a run can be started with
RunPaths ==
    { InputRoot \o <<<<"x">> \o DotPng>>,
      InputRoot \o <<SegA, <<"x">> \o DotPng>>,
      InputRoot \o <<SegA, <<"x">> \o DotJpg>>,
      InputRoot \o <<SegB, SegI, <<"x">> \o DotPng>> }

\* contents a source file can have: an image, which is resized and fits the
\* budget below the slider's quality, and not an image
RunImages ==
    { Image(TRUE, "RGB", 2000, 3000, 40), Image(FALSE, "RGB", 800, 600, 16) }

\* the slider's default quality
RunQualities == {85}

\* the budget of a run: the largest of the model
RunSizes == {MaxKB}
RunPrefixes == { <<>>, SegA }

\* os.path.getsize(file_path) of a source file
OriginalSize(img) == img.k * 100

\* the dictionaries appended to `results`, without the key 'reduction' (a
\* float derived from the two sizes, which no signal handler tests)
SuccessResult(r, original_size, new_size) ==
    [error |-> FALSE, reason |-> "", original |-> r.filename,
     new |-> r.new_filename, original_size |-> original_size,
     new_size |-> new_size, path |-> r.output_path]

ErrorResult(reason, filename) ==
    [error |-> TRUE, reason |-> reason, original |-> filename, new |-> <<>>,
     original_size |-> 0, new_size |-> 0, path |-> <<>>]

\* the signals
ProgressEv(current, total, r) ==
    [type |-> "progress", current |-> current, total |-> total,
     original |-> r.filename, new |-> r.new_filename, error |-> FALSE,
     reason |-> ""]

ResultEv(res) ==
    [type |-> "result", current |-> 0, total |-> 0, original |-> res.original,
     new |-> res.new, error |-> res.error, reason |-> res.reason]

FinishedEv ==
    [type |-> "finished", current |-> 0, total |-> 0, original |-> <<>>,
     new |-> <<>>, error |-> FALSE, reason |-> ""]

\* variant: the flag is never consulted
ShouldBreak_Never(mode, running) == FALSE

\* variant: the folder-mode loop consults the flag as well
ShouldBreak_AllModes(mode, running) == ~running

\* `if not self._is_running: break`, present in the file-mode loop only
ShouldBreak(mode, running) == mode = "file" /\ ~running

\* results.append(...) of the success branch, the failure branch and the
\* exception handler of one loop iteration
ResultsAfter(res, outcome) == Append(res, outcome)

\* the progress signal of one file: emitted in the success branch only; in
\* the folder modes through _progress_callback, which tests _is_running
ProgressAfter(mode, running, success, ev) ==
    IF success /\ (mode = "file" \/ running) THEN <<ev>> ELSE <<>>

\* `except Exception as e: results.append(...); continue`: the error is
\* recorded and the loop goes on with the next file
CatchAndContinue(i) == [pc |-> "loop", idx |-> i + 1]

\* the signals of the terminal step
FinishedSignals == <<FinishedEv>>

\* the handler of the outer try of process(): an error result, then finished
ExceptionSignals ==
    <<ResultEv(ErrorResult("unexpected", <<>>)), FinishedEv>>

RunInit ==
    /\ encIn = NoEncIn /\ encOut = NoEncOut
    /\ resIn = NoResIn /\ resOut = NoResOut
    /\ PairIdle /\ UiIdle
    /\ folder_mode \in Modes
    /\ \E n \in 1..MaxFiles :
         /\ files \in [1..n -> RunPaths]
         /\ \A i, j \in 1..n : i # j => files[i] # files[j]
    /\ input_dir = IF folder_mode = "file" THEN <<>> ELSE InputRoot
    /\ prefix \in IF folder_mode = "file" THEN RunPrefixes ELSE { <<>> }
    /\ max_kb \in RunSizes
    /\ quality \in RunQualities
    /\ is_running = TRUE
    /\ pc = "loop" /\ idx = 0 /\ results = <<>> /\ ridx = 0
    /\ events = <<>> /\ disk = <<>> /\ madeDirs = {} /\ stopLog = <<>>
    /\ attempted = <<>>

\* history of one loop iteration: the file, whether the iteration ended in
\* the failure branch or in the handler, whether compress_image left a
\* file at output_path (the output, or a file cut short by a failed write),
\* and the part of `results` it appended (positions from+1..to)
Begun(file_path, n) ==
    [path |-> file_path, failed |-> FALSE, wrote |-> FALSE, from |-> n, to |-> n]

Ended(att, failed, wrote, res) ==
    [att EXCEPT ![Len(att)].failed = failed, ![Len(att)].wrote = wrote,
                ![Len(att)].to = Len(res)]

\* head of the file loop: the loop ends, is left by `break`, or enters the
\* body for files[idx]
LoopHead ==
    /\ pc = "loop"
    /\ IF idx >= Len(files) \/ ShouldBreak(folder_mode, is_running)
       THEN /\ pc' = "emit"
            /\ ridx' = 0
            /\ UNCHANGED attempted
       ELSE /\ pc' = "work"
            /\ attempted' = Append(attempted, Begun(files[idx + 1], Len(results)))
            /\ UNCHANGED ridx
    /\ UNCHANGED <<files, input_dir, max_kb, quality, folder_mode, prefix,
                   is_running, idx, results, events, disk, madeDirs, stopLog,
                   encIn, encOut, resIn, resOut,
                   pairVars, uiVars>>

\* the destination of files[idx]
Resolve(file_path) ==
    IF folder_mode = "file" THEN FileResolve(file_path, prefix)
    ELSE FolderResolve(file_path, input_dir, folder_mode)

\* the directory p and its ancestors
Ancestors(p) == { SubSeq(p, 1, n) : n \in 1..Len(p) }

\* the directories that exist when the run starts: those of the source
\* files and their ancestors
SourceTree == UNION { Ancestors(Dirname(files[i])) : i \in DOMAIN files }

\* os.makedirs(output_dir, exist_ok=True) creates output_dir and those of
\* its ancestors that do not exist yet
MakeDirs(output_dir, made) ==
    (Ancestors(Normpath(output_dir)) \ SourceTree) \ made

\* the directories an os.makedirs that raises has created before: it
\* creates the missing directories from the outermost inwards, so what it
\* leaves is the missing directories down to some depth, none of them
\* included
PartialMakeDirs(output_dir, made) ==
    { { d \in MakeDirs(output_dir, made) : Len(d) <= depth } :
        depth \in 0..(Len(Normpath(output_dir)) - 1) }

\* what the body has created when an exception leaves it: os.makedirs
\* raised, or os.makedirs returned and os.path.getsize(file_path) raised
DirsAtException(output_dir, made) ==
    PartialMakeDirs(output_dir, made) \cup { MakeDirs(output_dir, made) }

\* the places of the loop body, after compress_image has returned True,
\* where an exception can be raised: "sizes" is os.path.getsize(output_path)
\* and the division, before results.append; "progress" is the progress
\* signal, after results.append, and only where it is emitted (in the
\* folder modes _progress_callback emits nothing once stop() was called)
LateRaises(mode, running) ==
    {"none", "sizes"} \cup (IF mode = "file" \/ running THEN {"progress"} ELSE {})

\* `results` after the part of the body that follows a compress_image that
\* returned True: the success dictionary, unless the exception came before
\* it, and the error dictionary of the per-file handler, if it was entered
ResultsOfWritten(res, late, success, error) ==
    LET appended == IF late = "sizes" THEN res ELSE ResultsAfter(res, success)
    IN  IF late = "none" THEN appended ELSE ResultsAfter(appended, error)

\* the states the destination of a run's file can be in: writable, not
\* writable, and holding fewer bytes than the fallback encoding needs
RunLimits == {1000}
RunDests(exists) ==
    { Dest(TRUE, exists, FALSE, 0), Dest(FALSE, exists, FALSE, 0) }
    \cup { Dest(TRUE, exists, TRUE, limit) : limit \in RunLimits }

\* the files on disk after compress_image has left `out` at output_path
DiskAfter(files_on_disk, output_path, file_path, out) ==
    (Normpath(output_path) :> [quality |-> out.quality, bytes |-> out.bytes,
                               source |-> file_path]) @@ files_on_disk

\* body of the file loop for files[idx]; the content of the file and the
\* state of the destination are inputs, and so is the place where an
\* exception is raised, if any. Before compress_image: os.makedirs has
\* created none, some or all of the directories, and the per-file handler
\* records the error. Otherwise the directories are created and the file is
\* compressed; a compress_image that returned False may have left a file
\* cut short at output_path; after a compress_image that wrote the output
\* an exception still ends in the per-file handler, with the output on disk
ProcessFile ==
    /\ pc = "work"
    /\ LET file_path == files[idx + 1]
           r == Resolve(file_path)
           error == ErrorResult("exception", r.filename)
           next == CatchAndContinue(idx)
       IN  \E raised \in BOOLEAN :
             IF raised
             THEN \E created \in DirsAtException(r.output_dir, madeDirs) :
                    /\ madeDirs' = madeDirs \cup created
                    /\ results' = ResultsAfter(results, error)
                    /\ attempted' = Ended(attempted, TRUE, FALSE, results')
                    /\ pc' = next.pc
                    /\ idx' = next.idx
                    /\ UNCHANGED <<disk, events>>
             ELSE \E img \in RunImages,
                     dest \in RunDests(Normpath(r.output_path) \in DOMAIN disk) :
                    LET c == compress_image(img, dest, max_kb, quality,
                                            DefaultMaxWidth)
                    IN  /\ madeDirs' = madeDirs \cup MakeDirs(r.output_dir, madeDirs)
                        /\ IF ~c.ok
                           THEN /\ disk' = IF c.out.truncated
                                           THEN DiskAfter(disk, r.output_path,
                                                          file_path, c.out)
                                           ELSE disk
                                /\ results' = ResultsAfter(results,
                                                  ErrorResult("failed", r.filename))
                                /\ attempted' = Ended(attempted, TRUE,
                                                      c.out.truncated, results')
                                /\ pc' = "loop"
                                /\ idx' = idx + 1
                                /\ UNCHANGED events
                           ELSE \E late \in LateRaises(folder_mode, is_running) :
                                  /\ disk' = DiskAfter(disk, r.output_path,
                                                       file_path, c.out)
                                  /\ results' = ResultsOfWritten(results, late,
                                                    SuccessResult(r, OriginalSize(img),
                                                                  c.out.bytes),
                                                    error)
                                  /\ events' = events \o ProgressAfter(folder_mode,
                                                   is_running, late = "none",
                                                   ProgressEv(idx + 1, Len(files), r))
                                  /\ attempted' = Ended(attempted, late # "none",
                                                        TRUE, results')
                                  /\ pc' = IF late = "none" THEN "loop" ELSE next.pc
                                  /\ idx' = IF late = "none" THEN idx + 1 ELSE next.idx
    /\ UNCHANGED <<files, input_dir, max_kb, quality, folder_mode, prefix,
                   is_running, ridx, stopLog, encIn, encOut, resIn, resOut,
                   pairVars, uiVars>>

\* `for result in results: self.result.emit(...)`
EmitResult ==
    /\ pc = "emit"
    /\ ridx < Len(results)
    /\ events' = Append(events, ResultEv(results[ridx + 1]))
    /\ ridx' = ridx + 1
    /\ UNCHANGED <<files, input_dir, max_kb, quality, folder_mode, prefix,
                   is_running, pc, idx, results, disk, madeDirs, stopLog,
                   attempted, encIn, encOut, resIn, resOut,
                   pairVars, uiVars>>

\* self.finished.emit()
EmitFinished ==
    /\ pc = "emit"
    /\ ridx >= Len(results)
    /\ events' = events \o FinishedSignals
    /\ pc' = "done"
    /\ UNCHANGED <<files, input_dir, max_kb, quality, folder_mode, prefix,
                   is_running, idx, results, ridx, disk, madeDirs, stopLog,
                   attempted, encIn, encOut, resIn, resOut,
                   pairVars, uiVars>>

\* ImageWorker.stop(), called from the interactive thread at any time, any
\* number of times; the history keeps the call that cleared the flag
Stop ==
    /\ is_running' = FALSE
    /\ stopLog' = IF is_running THEN Append(stopLog, [pc |-> pc, idx |-> idx])
                  ELSE stopLog
    /\ UNCHANGED <<files, input_dir, max_kb, quality, folder_mode, prefix,
                   pc, idx, results, ridx, events, disk, madeDirs, attempted,
                   encIn, encOut, resIn, resOut,
                   pairVars, uiVars>>

\* an exception raised inside process() outside the per-file handlers
UnexpectedException ==
    /\ pc \in {"loop", "emit"}
    /\ pc' = "except"
    /\ UNCHANGED <<files, input_dir, max_kb, quality, folder_mode, prefix,
                   is_running, idx, results, ridx, events, disk, madeDirs,
                   stopLog, attempted, encIn, encOut, resIn, resOut,
                   pairVars, uiVars>>

\* what the outer handler has emitted when it ends: its two signals, or
\* those emitted before the one whose emit raised
HandlerOutcomes ==
    { SubSeq(ExceptionSignals, 1, n) : n \in 0..Len(ExceptionSignals) }

\* `except Exception as e:` of process(): an error result, then finished.
\* Nothing protects the two emits: when one of them raises, the exception
\* leaves process() and the signals after it are not emitted
OuterHandler ==
    /\ pc = "except"
    /\ \E emitted \in HandlerOutcomes :
         /\ events' = events \o emitted
         /\ pc' = IF emitted = ExceptionSignals THEN "done" ELSE "raised"
    /\ UNCHANGED <<files, input_dir, max_kb, quality, folder_mode, prefix,
                   is_running, idx, results, ridx, disk, madeDirs, stopLog,
                   attempted, encIn, encOut, resIn, resOut,
                   pairVars, uiVars>>

WorkerNext == LoopHead \/ ProcessFile \/ EmitResult \/ EmitFinished

Init == RunInit

Next == WorkerNext \/ Stop

Spec == Init /\ [][Next]_vars

NextFault == WorkerNext \/ Stop \/ UnexpectedException \/ OuterHandler

\* the files of the runs in which an exception can be raised outside the
\* loop body: at the input root and in one folder below it
FaultPaths ==
    { InputRoot \o <<<<"x">> \o DotPng>>,
      InputRoot \o <<SegA, <<"x">> \o DotPng>>,
      InputRoot \o <<SegA, <<"x">> \o DotJpg>> }

FaultInit == RunInit /\ \A i \in DOMAIN files : files[i] \in FaultPaths

\* weak fairness of the loop body, WF_vars(ProcessFile), with its enabling
\* condition written out: the body can be taken exactly when pc = "work"
BodyFairness == ([]<>(pc # "work")) \/ ([]<><<ProcessFile>>_vars)

\* process() runs in a thread of its own, which the scheduler keeps
\* running: a step of the worker that stays possible is eventually taken.
\* Nothing is assumed of stop() and of the exceptions
SpecFault ==
    /\ FaultInit /\ [][NextFault]_vars
    /\ WF_vars(LoopHead) /\ BodyFairness
    /\ WF_vars(EmitResult) /\ WF_vars(EmitFinished) /\ WF_vars(OuterHandler)

--------------------------------------------------------------------------
(* Properties of a run (checked under Spec and SpecFault) *)

EventsOfType(t) == SelectSeq(events, LAMBDA e : e.type = t)

Stopped == stopLog # <<>>

\* the number of files a file-mode run cancelled by stop() gets to: the
\* file in progress at the time of the call is the last one
ExpectedAttempts ==
    IF folder_mode = "file" /\ Stopped /\ stopLog[1].pc \in {"loop", "work"}
    THEN stopLog[1].idx + (IF stopLog[1].pc = "work" THEN 1 ELSE 0)
    ELSE Len(files)

\* C1: a finished run has emitted exactly one progress signal per attempted
\* file, success or caught failure, the i-th one being (current=i, total=N).
C1_OneProgressPerAttempt ==
    pc = "done" =>
        LET P == EventsOfType("progress")
        IN  /\ Len(P) = Len(attempted)
            /\ \A i \in 1..Len(P) :
                  P[i].current = i /\ P[i].total = Len(files)

\* C2: the result signals are, in file order, exactly one outcome (success
\* or error) per attempted file and none for a file never reached; a
\* finished run has emitted exactly as many as it attempted files.
C2_OneOutcomePerAttempt ==
    LET R == EventsOfType("result")
    IN  /\ Len(R) <= Len(attempted)
        /\ \A i \in 1..Len(R) :
              /\ R[i].original = Basename(attempted[i].path)
              /\ R[i].error <=> attempted[i].failed
        /\ pc = "done" => Len(R) = Len(attempted)

FinishedAt == { i \in DOMAIN events : events[i].type = "finished" }

\* process() is over: it has returned, or an exception has left it
Over == pc \in {"done", "raised"}

\* no finished signal has been emitted while process() is still running,
\* and once it is over the one finished signal is the last event
FinishedOnlyAtEnd ==
    IF Over
    THEN FinishedAt = {Len(events)} /\ events # <<>>
    ELSE FinishedAt = {}

\* C3: every started run emits the finished signal exactly once, as its
\* last event, whether it completes, is cancelled, has per-file failures or
\* hits an unexpected exception inside process(): at every moment the
\* finished signal has been emitted only by a process() that is over,
\* once and last, and every run does get there.
C3_FinishedOnceLast == []FinishedOnlyAtEnd /\ <>Over

\* the files attempted so far
AttemptedSources == { attempted[i].path : i \in DOMAIN attempted }

\* the positions in `results` of the outcomes of the i-th attempted file
OutcomesOf(i) == (attempted[i].from + 1)..attempted[i].to

\* every outcome in `results` is an outcome of an attempted file: the parts
\* appended by the attempts follow one another and make up the whole list
OutcomesOfAttemptsOnly ==
    /\ \A i \in DOMAIN attempted :
          attempted[i].from = IF i = 1 THEN 0 ELSE attempted[i - 1].to
    /\ Len(results) = IF attempted = <<>> THEN 0
                      ELSE attempted[Len(attempted)].to

EndedByOuterHandler ==
    \E i \in DOMAIN events : events[i].reason = "unexpected"

\* the attempts whose loop body has ended
Completed ==
    { i \in DOMAIN attempted : pc # "work" \/ i < Len(attempted) }

\* a failure of a file is recorded as an error outcome of that file, and
\* only failures are; a run that ends by itself has attempted every file
\* of the list (up to the cancellation point in file mode)
FailuresBecomeOutcomes ==
    /\ OutcomesOfAttemptsOnly
    /\ \A i \in Completed :
          attempted[i].failed <=> \E j \in OutcomesOf(i) : results[j].error
    /\ (pc = "emit" \/ (pc = "done" /\ ~EndedByOuterHandler))
          => Len(attempted) = ExpectedAttempts

\* whatever happens in the loop body, process() goes on with the head of
\* the loop: the body leads neither to the handler of the outer try nor
\* to the end of the run
BodyReturnsToLoop == pc = "work" => pc' \in {"work", "loop"}

\* a per-file failure is turned into an error outcome for that file at the
\* file boundary and never ends the batch: every later file is still
\* attempted (up to the cancellation point in file mode), and the failure
\* does not reach the handler of the outer try of process()
PerFileFailuresHandled ==
    []FailuresBecomeOutcomes /\ [][BodyReturnsToLoop]_vars

\* no exception has left process()
NoExceptionLeavesProcess == pc # "raised"

\* C5: a per-file failure is turned into an error outcome for that file at
\* the file boundary and never ends the batch: every later file is still
\* attempted (up to the cancellation point in file mode), and no exception
\* propagates out of process() in any mode.
C5_FailureDoesNotEndBatch ==
    PerFileFailuresHandled /\ []NoExceptionLeavesProcess

--------------------------------------------------------------------------
(* Properties of compress_image (checked under SpecEnc) *)

Budget(kb) == kb * BytesPerKB

\* the image opens, and the resize (when one is needed) yields an image
DecodesAndResizes(img) ==
    /\ img.readable
    /\ img.width > DefaultMaxWidth => ResizedHeight(img, DefaultMaxWidth) > 0

\* the image, after the conversion of CMYK, LA and RGBA to RGB, is in a
\* mode the JPEG writer accepts
Encodable(img) ==
    (IF img.mode \in {"CMYK", "LA", "RGBA"} THEN "RGB" ELSE img.mode) \in JpegModes

\* encoding the (converted) image at quality q yields at most kb kilobytes
EncodesWithin(img, q, kb) == Encodable(img) /\ img.k * q <= Budget(kb)

\* the qualities startQuality, startQuality-5, ... that are at least low
LadderFrom(q0, low) == { q \in low..100 : q <= q0 /\ (q0 - q) % 5 = 0 }

SetMax(S) == CHOOSE m \in S : \A x \in S : x <= m

FitsFrom(low) ==
    { q \in LadderFrom(encIn.quality, low) :
        EncodesWithin(encIn.img, q, encIn.max_kb) }

AttemptsAt(q) == { i \in DOMAIN encOut.attempts : encOut.attempts[i].q = q }

EncPre == encIn.called /\ DecodesAndResizes(encIn.img) /\ Writable(encIn.dest)

\* C6: whenever some quality of the ladder startQuality, startQuality-5, ...
\* that is at least 35 encodes within the budget, compress_image writes the
\* buffer encoded at the highest such quality, and the written output is
\* within the budget.
C6_HighestFittingQuality ==
    (EncPre /\ FitsFrom(35) # {}) =>
        /\ encOut.ok
        /\ encOut.out.written
        /\ encOut.out.quality = SetMax(FitsFrom(35))
        /\ encOut.out.bytes <= Budget(encIn.max_kb)

\* C6 witness: the search went down the ladder before the first hit
C6_Witness ==
    /\ EncPre /\ FitsFrom(35) # {}
    /\ encOut.out.written
    /\ encOut.out.quality = SetMax(FitsFrom(35))
    /\ encOut.out.quality < encIn.quality
    /\ Len(encOut.attempts) > 1

\* C7 as stated: if no ladder quality that is at least 35 fits the budget,
\* the output is written at quality 30, encoded there exactly once.
C7_Original ==
    (EncPre /\ Encodable(encIn.img) /\ FitsFrom(35) = {}) =>
        /\ encOut.out.written
        /\ encOut.out.quality = 30
        /\ Cardinality(AttemptsAt(30)) = 1

\* C7 amended: quality 30 is encoded at most once per call and only as the
\* last step (the fallback); for an image that opens, resizes and is
\* JPEG-encodable and a writable destination, if no quality of the ladder
\* startQuality, startQuality-5, ... that is above 30 fits the budget, the
\* output is written at quality 30 whatever the resulting size, and when
\* some ladder quality fits, no encode at 30 happens.
C7_FallbackAt30 ==
    encIn.called =>
        /\ AttemptsAt(30) \subseteq {Len(encOut.attempts)}
        /\ (EncPre /\ Encodable(encIn.img)) =>
              /\ FitsFrom(31) = {} =>
                    /\ encOut.ok /\ encOut.out.written
                    /\ encOut.out.quality = 30
                    /\ encOut.out.bytes = encIn.img.k * 30
                    /\ AttemptsAt(30) = {Len(encOut.attempts)}
              /\ FitsFrom(31) # {} =>
                    /\ AttemptsAt(30) = {}
                    /\ encOut.out.quality # 30

\* C7 witness: the fallback output exceeds the budget after a full search
C7_Witness ==
    /\ EncPre /\ FitsFrom(31) = {}
    /\ encOut.out.written /\ encOut.out.quality = 30
    /\ encOut.out.bytes > Budget(encIn.max_kb)
    /\ Len(encOut.attempts) > 2

--------------------------------------------------------------------------
(* Properties of the path resolution (checked under SpecPath) *)

SourceName == Basename(resIn.file_path)
SourceExt == LowerStr(SplitExt(SourceName).ext)

\* C8 as stated: in all three modes the generated name ends in ".jpg"
\* (case-insensitively).
C8_Original ==
    resIn.called =>
        /\ EndsWith(LowerStr(resOut.folder.new_filename), DotJpg)
        /\ EndsWith(LowerStr(resOut.file.new_filename), DotJpg)

\* C8 amended: in the folder modes the generated name ends in ".jpg"; in
\* file mode it ends in ".jpg" unless the source extension is ".jpeg" (any
\* letter case), in which case the name keeps its ".jpeg" extension.
C8_JpegExtension ==
    resIn.called =>
        /\ EndsWith(LowerStr(resOut.folder.new_filename), DotJpg)
        /\ IF SourceExt = DotJpeg
           THEN /\ EndsWith(LowerStr(resOut.file.new_filename), DotJpeg)
                /\ EndsWith(resOut.file.new_filename, SourceName)
           ELSE EndsWith(LowerStr(resOut.file.new_filename), DotJpg)

\* C8 witness: a ".png" source renamed to ".jpg" in both resolutions
C8_Witness ==
    /\ resIn.called
    /\ SourceExt = DotPng
    /\ resIn.prefix # <<>>
    /\ EndsWith(resOut.folder.new_filename, DotJpg)
    /\ EndsWith(resOut.file.new_filename, DotJpg)

\* the rule of the specification: prefix + "_" + filename when the prefix
\* is non-empty, the extension replaced by .jpg only when it is neither
\* .jpg nor .jpeg
RuleName(pfx, filename) ==
    LET named == IF pfx # <<>> THEN pfx \o <<"_">> \o filename ELSE filename
        e == LowerStr(SplitExt(filename).ext)
    IN  IF e = DotJpg \/ e = DotJpeg THEN named
        ELSE SplitExt(named).root \o DotJpg

\* C9: given the same prefix and the same filename, process_images and the
\* file-mode branch of ImageWorker.process generate the same new name, the
\* one the rule gives.
C9_SameNameInAllModes ==
    resIn.called =>
        /\ resOut.folder.new_filename = resOut.same.new_filename
        /\ resOut.folder.new_filename = RuleName(resOut.folder.prefix, SourceName)

\* the directory of the source file relative to the input root
RelSegments ==
    SubSeq(Dirname(resIn.file_path), Len(resIn.input_dir) + 1,
           Len(Dirname(resIn.file_path)))

\* C10: in multiple-folder mode the prefix is the first segment of the
\* file's directory relative to the input root, empty for a file directly in
\* the root (no prefix, no underscore), and the output directory is
\* inputRoot/level1/reduced followed by the directory relative to
\* inputRoot/level1.
C10_MultipleFolderLayout ==
    (resIn.called /\ resIn.mode = "multiple") =>
        LET level1 == IF RelSegments = <<>> THEN <<>> ELSE RelSegments[1]
            below == IF RelSegments = <<>> THEN <<>> ELSE Tail(RelSegments)
            base == IF level1 = <<>> THEN resIn.input_dir
                    ELSE Append(resIn.input_dir, level1)
        IN  /\ resOut.folder.prefix = level1
            /\ level1 = <<>> => resOut.folder.new_filename
                                  = RuleName(<<>>, SourceName)
            /\ Normpath(resOut.folder.output_dir) = Append(base, Reduced) \o below

--------------------------------------------------------------------------
(* Two source files of one run *)

\* the path an output is written to, as the file system sees it
WrittenPath(i) == Normpath(pairOut[i].output_path)

\* the source file lies below a level-1 folder of the input root
UnderLevel1(i) == Len(pairIn.paths[i]) > Len(pairIn.input_dir) + 1

\* the level-1 folder the source file lies under
TrueLevel1(i) == pairIn.paths[i][Len(pairIn.input_dir) + 1]

\* the source file's directory below its level-1 folder, and its name
BelowLevel1(i) ==
    SubSeq(pairIn.paths[i], Len(pairIn.input_dir) + 2, Len(pairIn.paths[i]))

\* C11: in multiple-folder mode two source files under different level-1
\* folders are written to different output paths, whatever their
\* sub-paths and file names.
C11_Level1FoldersDisjoint ==
    (pairIn.called /\ pairIn.mode = "multiple"
       /\ UnderLevel1(1) /\ UnderLevel1(2) /\ TrueLevel1(1) # TrueLevel1(2))
    => WrittenPath(1) # WrittenPath(2)

\* two files with the same sub-path and name under different level-1
\* folders have been resolved
C11_Witness ==
    /\ pairIn.called /\ pairIn.mode = "multiple"
    /\ UnderLevel1(1) /\ UnderLevel1(2) /\ TrueLevel1(1) # TrueLevel1(2)
    /\ BelowLevel1(1) = BelowLevel1(2)
    /\ Len(BelowLevel1(1)) > 1
    /\ WrittenPath(1) # WrittenPath(2)

\* C12: no output path of a run is the path of a source file of that run,
\* in the folder modes (whose file list holds what an earlier run left in
\* `reduced` folders) and in file mode.
C12_SourcesNeverOverwritten ==
    pairIn.called =>
        \A i, j \in DOMAIN pairIn.paths : WrittenPath(i) # pairIn.paths[j]

--------------------------------------------------------------------------
(* The encodes of one call of compress_image *)

\* the encodes the quality-search loop performed (into the buffer)
LoopEncodes ==
    { i \in DOMAIN encOut.attempts : encOut.attempts[i].target = "buffer" }

\* the encodes of the fallback (straight to the output file)
FallbackEncodes ==
    { i \in DOMAIN encOut.attempts : encOut.attempts[i].target = "file" }

\* C13 as stated: for every startQuality in 1..100 the quality-search loop
\* never encodes at a quality below 35, and the only encode below 35 is the
\* fallback at 30.
C13_Original ==
    encIn.called =>
        /\ \A i \in LoopEncodes : encOut.attempts[i].q >= 35
        /\ \A i \in DOMAIN encOut.attempts :
              encOut.attempts[i].q < 35 =>
                  (i \in FallbackEncodes /\ encOut.attempts[i].q = 30)

\* C13 amended: for every startQuality in 1..100 the quality-search loop
\* encodes only at startQuality, startQuality-5, ... as long as the value is
\* greater than 30, each at most once and in descending order, so never at
\* 30 or below; the only encode at 30 or below is the fallback at 30.
C13_LoopAbove30 ==
    encIn.called =>
        /\ \A i \in LoopEncodes :
              /\ encOut.attempts[i].q > 30
              /\ encOut.attempts[i].q = encIn.quality - 5 * (i - 1)
        /\ \A i \in DOMAIN encOut.attempts :
              encOut.attempts[i].q <= 30 =>
                  (i \in FallbackEncodes /\ encOut.attempts[i].q = 30)

\* C13 witness: the loop encoded at a quality in 31..34 and the fallback
\* followed
C13_Witness ==
    /\ encIn.called
    /\ \E i \in LoopEncodes : encOut.attempts[i].q \in 31..34
    /\ FallbackEncodes # {}
    /\ encOut.out.written /\ encOut.out.quality = 30

--------------------------------------------------------------------------
(* Order of the signals of a run, and the folder modes under stop() *)

\* the number of result signals among the first n events
ResultsUpTo(n) ==
    Cardinality({ j \in 1..n : events[j].type = "result" })

\* C14: the outcome of file i is emitted right after file i is attempted:
\* when file i+1 has been begun the outcomes of files 1..i have been
\* emitted, and in the event stream the outcome of file i comes before the
\* progress signal of every later file.
C14_OutcomeBeforeNextFile ==
    /\ ResultsUpTo(Len(events)) >= Len(attempted) - 1
    /\ \A j, n \in DOMAIN events :
          (j < n /\ events[j].type = "progress" /\ events[n].type = "result")
          => events[j].current <= ResultsUpTo(n)

\* the output paths of the files of the list for which compress_image left
\* a file: the output, or a file cut short by a failed write
OutputsOfSuccesses ==
    { Normpath(Resolve(files[i]).output_path) :
        i \in { n \in DOMAIN attempted : attempted[n].wrote } }

--------------------------------------------------------------------------
(* Pixel mode, dimensions and quality of the output of compress_image *)

\* C16: every image that opens is, before the first encode, in a mode the
\* JPEG writer accepts (RGBA, LA, CMYK and the palette modes P and PA
\* having been converted to RGB), so no encode fails because of the pixel
\* mode and compress_image succeeds when the destination is writable.
C16_EveryModeEncodable ==
    EncPre =>
        /\ ConvertMode(encIn.img.mode) \in JpegModes
        /\ \A i \in DOMAIN encOut.attempts : encOut.attempts[i].ok
        /\ encOut.ok

\* h * m / w rounded to the nearest integer, halves to the even neighbour
\* (round())
Rounded(h, m, w) ==
    LET q == (h * m) \div w
        twice == 2 * ((h * m) % w)
    IN  IF twice < w THEN q
        ELSE IF twice > w THEN q + 1
        ELSE IF q % 2 = 0 THEN q ELSE q + 1

EncodesSomething ==
    encIn.called /\ encIn.img.readable /\ Writable(encIn.dest) /\ Encodable(encIn.img)

\* C17 as stated: an image wider than maxWidth is resized to width maxWidth
\* and height round(h * maxWidth / w), which is at least 1; any other image
\* keeps its dimensions.
C17_Original ==
    EncodesSomething =>
        /\ encOut.out.written
        /\ IF encIn.img.width > DefaultMaxWidth
           THEN /\ encOut.out.width = DefaultMaxWidth
                /\ encOut.out.height
                     = Rounded(encIn.img.height, DefaultMaxWidth, encIn.img.width)
                /\ encOut.out.height >= 1
           ELSE /\ encOut.out.width = encIn.img.width
                /\ encOut.out.height = encIn.img.height

\* C17 amended: an image wider than maxWidth is resized to width maxWidth
\* and height int(h * (maxWidth / w)): the integer part of h * maxWidth / w,
\* or one less where that quotient is an integer and the floating-point
\* product falls just below it; when this height is 0 nothing is written
\* and compress_image returns False; any other image keeps its dimensions.
C17_ResizeTruncates ==
    EncodesSomething =>
        LET w == encIn.img.width
            h == encIn.img.height
            floor == (h * DefaultMaxWidth) \div w
            whole == (h * DefaultMaxWidth) % w = 0
        IN  IF w > DefaultMaxWidth
            THEN /\ floor = 0 => (~encOut.ok /\ ~encOut.out.written)
                 /\ (floor >= 2 \/ (floor = 1 /\ ~whole)) => encOut.out.written
                 /\ encOut.out.written =>
                       /\ encOut.out.width = DefaultMaxWidth
                       /\ encOut.out.height >= 1
                       /\ encOut.out.height \in {floor - 1, floor}
                       /\ ~whole => encOut.out.height = floor
            ELSE /\ encOut.out.written
                 /\ encOut.out.width = w
                 /\ encOut.out.height = encIn.img.height

\* C17 witness: a resized output whose height is the truncated quotient,
\* one below the rounded one
C17_Witness ==
    /\ EncodesSomething /\ encIn.img.width > DefaultMaxWidth
    /\ encOut.out.written /\ encOut.out.width = DefaultMaxWidth
    /\ encOut.out.height
         = (encIn.img.height * DefaultMaxWidth) \div encIn.img.width
    /\ encOut.out.height + 1
         = Rounded(encIn.img.height, DefaultMaxWidth, encIn.img.width)

\* C18: within one run distinct source files are written to distinct
\* output paths, in each of the three modes; in particular x.png, x.jpg
\* and x.jpeg of one directory do not share an output path.
C18_DistinctOutputs ==
    pairIn.called =>
        (pairIn.paths[1] # pairIn.paths[2] => WrittenPath(1) # WrittenPath(2))

\* C19: for every startQuality in 1..100 the quality at which the written
\* output was encoded does not exceed startQuality.
C19_QualityNeverAboveStart ==
    (encIn.called /\ encOut.out.written) =>
        encOut.out.quality <= encIn.quality

--------------------------------------------------------------------------
(* MainWindow: the buttons of the tabs, and the workers they start *)

\* what the window and its workers leave alone
nonUiVars == <<workerVars, encIn, encOut, resIn, resOut, pairVars>>

\* the tabs modelled: one folder tab and the File tab
UiTabs == {"Single Folder", "File"}

\* folder_mode of the worker a tab starts
TabMode(t) ==
    IF t = "Multiple Folder" THEN "multiple"
    ELSE IF t = "File" THEN "file"
    ELSE "single"

\* a tab as built by __init__: START shown, STOP and RESET hidden, RESET
\* disabled, no folder and no files chosen; the STOP button is visible
\* exactly when the START button is not
NewTab ==
    [start_visible |-> TRUE, stop_text |-> "STOP U+26D4", stop_enabled |-> TRUE,
     reset_visible |-> FALSE, reset_enabled |-> FALSE, input |-> FALSE]

\* the button changes at the start of a run
StartButtons(tb) ==
    [tb EXCEPT !.start_visible = FALSE, !.stop_text = "STOP",
               !.stop_enabled = TRUE, !.reset_visible = TRUE,
               !.reset_enabled = FALSE]

\* the button changes of stop_process, update_progress (current == total)
\* and process_completed
DoneButtons(tb) ==
    [tb EXCEPT !.stop_text = "DONE U+2714", !.stop_enabled = FALSE,
               !.reset_enabled = TRUE]

\* ImageWorker(files, ...) moved to a new QThread and started; `left`
\* counts the files the loop has not reached yet
NewWorker(t, n) ==
    [tab |-> t, mode |-> TabMode(t), is_running |-> TRUE, left |-> n,
     state |-> "loop", thread |-> "running"]

\* the main window exists: its event loop, or that of the modal prefix
\* dialog, delivers queued signals, and the worker threads run
Alive == app # "aborted"

\* the runs whose file loop has not ended
Processing == { r \in DOMAIN runs : runs[r].state = "loop" }

UiInit ==
    /\ WorkerIdle /\ PairIdle
    /\ encIn = NoEncIn /\ encOut = NoEncOut
    /\ resIn = NoResIn /\ resOut = NoResOut
    /\ mw_worker = 0
    /\ tabs = [t \in UiTabs |-> NewTab]
    /\ runs = <<>> /\ sigq = <<>> /\ stopLogUI = NoPress /\ app = "running"

\* browse_folder on a folder tab, browse_files / handle_files_dropped on
\* the File tab: a folder that holds images, or some image files, are chosen
browse(t) ==
    /\ app = "running"
    /\ ~tabs[t].input
    /\ tabs' = [tabs EXCEPT ![t].input = TRUE]
    /\ UNCHANGED <<nonUiVars, mw_worker, runs, sigq, stopLogUI, app>>

\* self.worker_thread = QThread(); self.worker = ImageWorker(...); ...;
\* QTimer.singleShot(0, self.worker.process): whatever self.worker and
\* self.worker_thread referred to is replaced
StartWorker(t, n) ==
    /\ Len(runs) < MaxRuns
    /\ runs' = Append(runs, NewWorker(t, n))
    /\ mw_worker' = Len(runs) + 1

\* a click on START of a folder tab: toggle_process, then run_process,
\* which returns early, the buttons already switched, when no folder is set
run_process(t) ==
    /\ app = "running"
    /\ t # "File"
    /\ tabs[t].start_visible
    /\ tabs' = [tabs EXCEPT ![t] = StartButtons(@)]
    /\ IF tabs[t].input
       THEN \E n \in 1..MaxFiles : StartWorker(t, n)
       ELSE UNCHANGED <<mw_worker, runs>>
    /\ UNCHANGED <<nonUiVars, sigq, stopLogUI, app>>

\* a click on START of the File tab: toggle_process finds the START button
\* visible and opens the modal QInputDialog, which blocks the window's
\* buttons while queued signals are still delivered
toggle_process ==
    /\ app = "running"
    /\ tabs["File"].start_visible
    /\ app' = "dialog"
    /\ UNCHANGED <<nonUiVars, mw_worker, tabs, runs, sigq, stopLogUI>>

\* the dialog is cancelled: `if not ok: return`
DialogRejected ==
    /\ app = "dialog"
    /\ app' = "running"
    /\ UNCHANGED <<nonUiVars, mw_worker, tabs, runs, sigq, stopLogUI>>

\* the dialog is accepted: process_files_with_prefix returns at once when
\* no files are selected, else switches the buttons and starts a worker
process_files_with_prefix ==
    /\ app = "dialog"
    /\ app' = "running"
    /\ IF tabs["File"].input
       THEN /\ tabs' = [tabs EXCEPT !["File"] = StartButtons(@)]
            /\ \E n \in 1..MaxFiles : StartWorker("File", n)
       ELSE UNCHANGED <<mw_worker, tabs, runs>>
    /\ UNCHANGED <<nonUiVars, sigq, stopLogUI>>

\* a click on the enabled STOP button: toggle_process, then stop_process
stop_process(t) ==
    /\ app = "running"
    /\ ~tabs[t].start_visible
    /\ tabs[t].stop_enabled
    /\ tabs[t].stop_text = "STOP"
    /\ runs' = IF mw_worker # 0
               THEN [runs EXCEPT ![mw_worker].is_running = FALSE]
               ELSE runs
    /\ tabs' = [tabs EXCEPT ![t] = DoneButtons(@)]
    /\ stopLogUI' = [tab |-> t, processing |-> Processing,
                      flagged |-> mw_worker]
    /\ UNCHANGED <<nonUiVars, mw_worker, sigq, app>>

\* a click on the enabled RESET button
reset_process(t) ==
    /\ app = "running"
    /\ tabs[t].reset_visible
    /\ tabs[t].reset_enabled
    /\ tabs' = [tabs EXCEPT ![t].input = FALSE, ![t].start_visible = TRUE,
                            ![t].reset_visible = FALSE,
                            ![t].reset_enabled = FALSE]
    /\ UNCHANGED <<nonUiVars, mw_worker, runs, sigq, stopLogUI, app>>

\* one pass of the file loop of run r, in its thread: the loop ends (all
\* files done, or `break` in file mode), or one file is processed; of the
\* progress signals only the one with current == total changes the window
WorkerStep(r) ==
    /\ Alive
    /\ runs[r].state = "loop"
    /\ IF runs[r].left = 0 \/ ShouldBreak(runs[r].mode, runs[r].is_running)
       THEN /\ runs' = [runs EXCEPT ![r].state = "emit"]
            /\ UNCHANGED sigq
       ELSE \E success \in BOOLEAN :
              /\ runs' = [runs EXCEPT ![r].left = @ - 1]
              /\ sigq' = IF runs[r].left = 1
                            /\ ProgressAfter(runs[r].mode, runs[r].is_running,
                                             success, 0) # <<>>
                         THEN Append(sigq, [type |-> "progress", run |-> r])
                         ELSE sigq
    /\ UNCHANGED <<nonUiVars, mw_worker, tabs, stopLogUI, app>>

\* the results are emitted, then self.finished.emit() queues the slots
\* connected to `finished` in the order of their connection,
\* worker_thread.quit before process_completed, and process() returns
WorkerReturn(r) ==
    /\ Alive
    /\ runs[r].state = "emit"
    /\ runs' = [runs EXCEPT ![r].state = "returned"]
    /\ sigq' = sigq \o << [type |-> "quit", run |-> r],
                          [type |-> "finished", run |-> r] >>
    /\ UNCHANGED <<nonUiVars, mw_worker, tabs, stopLogUI, app>>

\* the main thread runs the next queued slot: update_progress with
\* current == total; quit() of the run's own QThread, which only asks that
\* thread's event loop to exit; or process_completed, which clears
\* self.worker and self.worker_thread whatever they refer to
DeliverSignal ==
    /\ Alive
    /\ sigq # <<>>
    /\ LET sig == Head(sigq)
           t == runs[sig.run].tab
       IN  /\ tabs' = IF sig.type = "quit" THEN tabs
                      ELSE [tabs EXCEPT ![t] = DoneButtons(@)]
           /\ mw_worker' = IF sig.type = "finished" THEN 0 ELSE mw_worker
           /\ runs' = IF sig.type = "quit"
                      THEN [runs EXCEPT ![sig.run].thread = "quitting"]
                      ELSE runs
    /\ sigq' = Tail(sigq)
    /\ UNCHANGED <<nonUiVars, stopLogUI, app>>

\* the event loop of the thread of run r exits and the thread ends
ThreadExit(r) ==
    /\ Alive
    /\ runs[r].thread = "quitting"
    /\ runs' = [runs EXCEPT ![r].thread = "finished"]
    /\ UNCHANGED <<nonUiVars, mw_worker, tabs, sigq, stopLogUI, app>>

\* the QThread of a run that self.worker_thread does not refer to (replaced
\* by a later start, or cleared by process_completed with no wait()) is
\* collected while its thread has not ended: Qt may end the process
\* ("QThread: Destroyed while thread is still running")
ThreadDestroyed ==
    /\ Alive
    /\ \E r \in DOMAIN runs : runs[r].thread # "finished" /\ mw_worker # r
    /\ app' = "aborted"
    /\ UNCHANGED <<nonUiVars, mw_worker, tabs, runs, sigq, stopLogUI>>

UiNext ==
    \/ \E t \in UiTabs : browse(t)
    \/ \E t \in UiTabs : run_process(t)
    \/ toggle_process
    \/ DialogRejected
    \/ process_files_with_prefix
    \/ \E t \in UiTabs : stop_process(t)
    \/ \E t \in UiTabs : reset_process(t)
    \/ \E r \in DOMAIN runs : WorkerStep(r)
    \/ \E r \in DOMAIN runs : WorkerReturn(r)
    \/ \E r \in DOMAIN runs : ThreadExit(r)
    \/ DeliverSignal
    \/ ThreadDestroyed

SpecUI == UiInit /\ [][UiNext]_vars

\* C20: while the application runs, at most one run is processing files,
\* self.worker refers to the run that is processing (no finished signal of
\* an earlier run has cleared it and no later start has replaced it), and
\* a press of STOP during a run's processing has set the cancel flag of
\* that run's worker.
C20_OneRunStopReachesIt ==
    Alive =>
        /\ Cardinality(Processing) <= 1
        /\ \A r \in Processing : mw_worker = r
        /\ \A r \in stopLogUI.processing : stopLogUI.flagged = r

====
